---- MODULE Spec2Model ----
(***************************************************************************)
(* Model of tools/sh_commands.py: the device lock (device_lock_path,       *)
(* device_lock, is_device_locked, adb_run) and the OpenCL binary merge     *)
(* (merge_opencl_binaries).                                                *)
(*                                                                         *)
(* Five specifications share the module.  Spec runs the processes that    *)
(* use the device lock; SpecCrash is Spec with holders that may die;       *)
(* SpecLive has processes that call adb_run again and again, under         *)
(* fairness;                                                               *)
(* SpecMerge runs one call of merge_opencl_binaries, directory by          *)
(* directory; SpecCall runs two whole calls of it on one list of           *)
(* directories.  Each leaves the other components' variables at their      *)
(* initial values.                                                         *)
(***************************************************************************)
EXTENDS Integers, Sequences, FiniteSets, TLC

VARIABLES
    \* ---- device lock ----
    flock,      \* lock path -> set of processes holding flock(LOCK_EX) on it
    pc,         \* process -> position in its operation
    op,         \* process -> "none" | "adb_run" | "device_lock" | "probe"
    serial,     \* process -> serialno argument ("none": no call yet)
    timeout,    \* process -> timeout of its FileLock, in ticks
    start,      \* process -> start_time of FileLock.acquire
    result,     \* process -> outcome of the operation
    env,        \* process -> what the others did to its lock since it began
    blockedBy,  \* process -> the holder its last failed attempt met
    atRaise,    \* process -> was its lock held when Timeout was raised
    users,      \* serial -> processes that ever began an acquire on it
    now,        \* the clock, in ticks of one poll interval
    \* ---- merge_opencl_binaries ----
    mpc,        \* "idle" | "start" | "loop" | "done" | "failed"
    nSrc,       \* directories the loop over cl_bin_dirs has passed
    outDir,     \* does dirname(output_file_path) exist
    outFile,    \* the file at output_file_path
    outFile0,   \* the same before the call
    kvs,        \* the dict kvs, as its hash table
    err,        \* "none", or the error that ended the call
    ghost,      \* what the sources read so far held (for the claims)
    \* ---- two calls of merge_opencl_binaries on one list ----
    dirs,       \* binaries_dirs: the source of each directory, in order
    calls       \* call -> [status, err, file]: its course and its output file

lockVars == <<flock, pc, op, serial, timeout, start, result, env, blockedBy,
              atRaise, users, now>>
mergeVars == <<mpc, nSrc, outDir, outFile, outFile0, kvs, err, ghost>>
callVars == <<dirs, calls>>
vars == <<lockVars, mergeVars, callVars>>

(***************************************************************************)
(* Bounds of the model.                                                    *)
(***************************************************************************)
MaxTime == 1
MaxTimeout == 0
MaxSources == 3
MaxRecords == 1
MaxCut == 1
MaxCallRecords == 2

Procs == {"p1", "p2", "p3"}
Serials == {"d1", "d2"}
Timeouts == 0..MaxTimeout

(***************************************************************************)
(* Program constants.  Time is counted in ticks of FileLock's poll         *)
(* interval (0.05 s).  device_lock's default timeout is 3600 s; the probe  *)
(* of is_device_locked uses 0.000001 s, less than one tick.                *)
(***************************************************************************)
TicksPerSecond == 20
DefaultTimeoutSeconds == 3600
DefaultTimeout == DefaultTimeoutSeconds * TicksPerSecond
ProbeTimeout == 0

(***************************************************************************)
(* The device lock.                                                        *)
(***************************************************************************)

\* Mutant: one lock file for every device.
device_lock_path_shared(serialno) == <<"/tmp/device-lock-", "d1">>

\* Mutant: the serial is left out of the path.
device_lock_path_fixed(serialno) == <<"/tmp/device-lock-", "">>

\* device_lock_path: "/tmp/device-lock-%s" % serialno
device_lock_path(serialno) == <<"/tmp/device-lock-", serialno>>

LockPaths == {device_lock_path(s) : s \in Serials}

\* The path of the lock p works on.
PathOf(p) == device_lock_path(serial[p])

\* Mutant: the lock is not exclusive.
FlockGrantedAlways(path) == TRUE

\* flock(fd, LOCK_EX | LOCK_NB) succeeds iff no open file description holds
\* the lock of that file.
FlockGranted(path) == flock[path] = {}

AcquiringPcs == {"try", "check", "sleep"}
AdbPcs == {"rm", "mkdir", "push", "run"}
HoldingPcs == AdbPcs \cup {"cs", "release"}

\* q is between the start of FileLock.acquire and the end of release on d.
Active(q, d) == serial[q] = d /\ pc[q] \in AcquiringPcs \cup HoldingPcs

\* Mutant: is_device_locked returns False without leaving the with block.
BodyPcProbeKeeps(o) ==
    CASE o = "adb_run" -> "rm"
      [] o = "device_lock" -> "cs"
      [] OTHER -> "done"

\* The body entered once the lock is held.
BodyPc(o) ==
    CASE o = "adb_run" -> "rm"
      [] o = "device_lock" -> "cs"
      [] OTHER -> "release"       \* is_device_locked: "return False"

\* FileLock.acquire begins for p, running o, on d: start_time = time.time().
\* env follows, for a probe, what the other processes do to its lock.
BeginAcquire(p, o, d) ==
    /\ start' = [start EXCEPT ![p] = now]
    /\ pc' = [pc EXCEPT ![p] = "try"]
    /\ users' = [users EXCEPT ![d] = @ \cup {p}]
    /\ env' = [q \in Procs |->
                 IF q = p
                 THEN IF o # "probe" THEN "none"
                      ELSE IF flock[device_lock_path(d)] # {} THEN "held"
                      ELSE IF \E r \in Procs \ {p} : Active(r, d)
                           THEN "mixed" ELSE "quiet"
                 ELSE IF Active(q, d) /\ env[q] = "quiet" THEN "mixed"
                      ELSE env[q]]

\* A process calls adb_run(serialno), `with device_lock(serialno, timeout)`
\* or is_device_locked(serialno).
Start(p, o, d, t) ==
    /\ pc[p] = "idle"
    /\ op' = [op EXCEPT ![p] = o]
    /\ serial' = [serial EXCEPT ![p] = d]
    /\ timeout' = [timeout EXCEPT ![p] = t]
    /\ IF o = "adb_run"
       THEN /\ pc' = [pc EXCEPT ![p] = "getprop"]
            /\ UNCHANGED <<start, users, env>>
       ELSE BeginAcquire(p, o, d)
    /\ UNCHANGED <<flock, result, blockedBy, atRaise, now,
                   mergeVars, callVars>>

\* adb_run: props = adb_getprop_by_serialno(serialno), before the lock.
GetProp(p) ==
    /\ pc[p] = "getprop"
    /\ BeginAcquire(p, op[p], serial[p])
    /\ UNCHANGED <<flock, op, serial, timeout, result, blockedBy, atRaise,
                   now,
                   mergeVars, callVars>>

\* The getprop command fails: adb_run raises before it reaches the lock.
GetPropFail(p) ==
    /\ pc[p] = "getprop"
    /\ pc' = [pc EXCEPT ![p] = "done"]
    /\ result' = [result EXCEPT ![p] = "raised"]
    /\ UNCHANGED <<flock, op, serial, timeout, start, env, blockedBy, atRaise,
                   users, now,
                   mergeVars, callVars>>

\* One pass of FileLock.acquire's loop: self._acquire().
TryAcquire(p) ==
    /\ pc[p] = "try"
    /\ IF FlockGranted(PathOf(p))
       THEN /\ flock' = [flock EXCEPT ![PathOf(p)] = @ \cup {p}]
            /\ pc' = [pc EXCEPT ![p] = BodyPc(op[p])]
            /\ result' = [result EXCEPT ![p] =
                            IF op[p] = "probe" THEN "False" ELSE @]
            /\ start' = [start EXCEPT ![p] = 0]
            /\ UNCHANGED blockedBy
       ELSE /\ pc' = [pc EXCEPT ![p] = "check"]
            /\ blockedBy' = [blockedBy EXCEPT ![p] =
                               CHOOSE q \in flock[PathOf(p)] : TRUE]
            /\ UNCHANGED <<flock, result, start>>
    /\ UNCHANGED <<op, serial, timeout, env, atRaise, users, now,
                   mergeVars, callVars>>

\* The lock was not obtained:
\*   elif timeout >= 0 and time.time() - start_time > timeout: raise Timeout
\*   else: time.sleep(poll_intervall)
\* Mutant: the wait has no bound.
TimedOutNever(p) == FALSE

\* Mutant: the timeout is found elapsed one poll interval late.
TimedOutLate(p) == timeout[p] >= 0 /\ now - start[p] > timeout[p] + 1

TimedOut(p) == timeout[p] >= 0 /\ now - start[p] > timeout[p]

CheckTimeout(p) ==
    /\ pc[p] = "check"
    /\ IF TimedOut(p)
       THEN /\ pc' = [pc EXCEPT ![p] = "done"]
            /\ result' = [result EXCEPT ![p] =
                            IF op[p] = "probe" THEN "True" ELSE "Timeout"]
            /\ atRaise' = [atRaise EXCEPT ![p] =
                             IF flock[PathOf(p)] # {} THEN "held" ELSE "free"]
            /\ start' = [start EXCEPT ![p] = 0]
       ELSE /\ pc' = [pc EXCEPT ![p] = "sleep"]
            /\ UNCHANGED <<result, atRaise, start>>
    /\ UNCHANGED <<flock, op, serial, timeout, env, blockedBy, users, now,
                   mergeVars, callVars>>

\* One poll interval passes: every time.sleep(poll_intervall) ends.
Tick ==
    /\ now < MaxTime
    /\ now' = now + 1
    /\ pc' = [p \in Procs |-> IF pc[p] = "sleep" THEN "try" ELSE pc[p]]
    /\ UNCHANGED <<flock, op, serial, timeout, start, result, env, blockedBy,
                   atRaise, users,
                   mergeVars, callVars>>

\* Mutant: the binary is pushed before the directory is cleared and made.
AfterAdbPushFirst(at) ==
    CASE at = "rm" -> "push"
      [] at = "push" -> "mkdir"
      [] at = "mkdir" -> "run"
      [] OTHER -> "release"

\* The position after an adb command of adb_run's block succeeded.
AfterAdb(at) ==
    CASE at = "rm" -> "mkdir"
      [] at = "mkdir" -> "push"
      [] at = "push" -> "run"
      [] OTHER -> "release"       \* return "".join(stdout_buff)

\* adb_run, inside the with block: rm -rf, mkdir -p, push, run.
AdbStep(p) ==
    /\ pc[p] \in AdbPcs
    /\ pc' = [pc EXCEPT ![p] = AfterAdb(pc[p])]
    /\ result' = [result EXCEPT ![p] =
                    IF pc[p] = "run" THEN "returned" ELSE @]
    /\ UNCHANGED <<flock, op, serial, timeout, start, env, blockedBy, atRaise,
                   users, now,
                   mergeVars, callVars>>

\* Mutant: an exception leaves the block without releasing.
AfterRaiseNoRelease(at) == "done"

\* Where an exception raised inside the with block goes: FileLock.__exit__.
AfterRaise(at) == "release"

\* An adb command of the block fails: sh raises ErrorReturnCode.
AdbFail(p) ==
    /\ pc[p] \in AdbPcs
    /\ pc' = [pc EXCEPT ![p] = AfterRaise(pc[p])]
    /\ result' = [result EXCEPT ![p] = "raised"]
    /\ UNCHANGED <<flock, op, serial, timeout, start, env, blockedBy, atRaise,
                   users, now,
                   mergeVars, callVars>>

\* The block of a caller's `with device_lock(serialno, timeout)` ends,
\* normally or by an exception.
CsExit(p, how) ==
    /\ pc[p] = "cs"
    /\ pc' = [pc EXCEPT ![p] = "release"]
    /\ result' = [result EXCEPT ![p] = how]
    /\ UNCHANGED <<flock, op, serial, timeout, start, env, blockedBy, atRaise,
                   users, now,
                   mergeVars, callVars>>

\* The exception FileLock.acquire raises, filelock.Timeout(lock_file): its
\* one attribute is the path of the lock file ("The file lock '...' could
\* not be acquired.").  device_lock raises it as it is.
TimeoutError(lock_file) == [lock_file |-> lock_file]

\* What p's operation raised, when it ended with the timeout error.
RaisedBy(p) == TimeoutError(PathOf(p))

\* FileLock.__exit__: release() unlocks and closes the file.
Release(p) ==
    /\ pc[p] = "release"
    /\ flock' = [flock EXCEPT ![PathOf(p)] = @ \ {p}]
    /\ pc' = [pc EXCEPT ![p] = "done"]
    /\ env' = [q \in Procs |->
                 IF q # p /\ Active(q, serial[p]) /\ env[q] = "held"
                 THEN "mixed" ELSE env[q]]
    /\ UNCHANGED <<op, serial, timeout, start, result, blockedBy, atRaise,
                   users, now,
                   mergeVars, callVars>>

InitLock ==
    /\ flock = [path \in LockPaths |-> {}]
    /\ pc = [p \in Procs |-> "idle"]
    /\ op = [p \in Procs |-> "none"]
    /\ serial = [p \in Procs |-> "none"]
    /\ timeout = [p \in Procs |-> 0]
    /\ start = [p \in Procs |-> 0]
    /\ result = [p \in Procs |-> "none"]
    /\ env = [p \in Procs |-> "none"]
    /\ blockedBy = [p \in Procs |-> "none"]
    /\ atRaise = [p \in Procs |-> "none"]
    /\ users = [d \in Serials |-> {}]
    /\ now = 0

(***************************************************************************)
(* merge_opencl_binaries: bytes, struct and numpy.                         *)
(***************************************************************************)

Min(a, b) == IF a < b THEN a ELSE b

\* struct.pack of a non-negative integer, little-endian, w bytes wide.
RECURSIVE LE(_, _)
LE(n, w) == IF w = 0 THEN <<>> ELSE <<n % 256>> \o LE(n \div 256, w - 1)

\* The integer that w little-endian bytes hold.
RECURSIVE FromLE(_)
FromLE(b) == IF b = <<>> THEN 0 ELSE b[1] + 256 * FromLE(Tail(b))

\* Widths of the formats "Q" and "i".
QSize == 8
ISize == 4

\* Mutant: the count is written with the format "i".
PackQNarrow(n) == LE(n, ISize)

\* struct.pack("Q", n)
PackQ(n) == LE(n, QSize)

\* struct.pack("i", n)
PackI(n) == LE(n, ISize)

\* binary_array[i:j], with idx counted from 0: a slice stops at the end of
\* the array and is empty when it starts past it.
Slice(arr, i, j) == SubSeq(arr, i + 1, Min(j, Len(arr)))

\* struct.unpack(fmt, buf) raises struct.error unless buf has the size of
\* fmt; CanUnpack tells whether it does.
CanUnpack(buf, size) == Len(buf) = size

\* Mutant: the comparison finds any two values equal.
NpEqAllTrue(a, b) == "True"

\* (a == b).all() on two uint8 arrays.  Equal shapes compare element by
\* element; an array of one element is broadcast against the other; for
\* other shapes == gives the plain bool False, which has no .all() (a later
\* numpy raises at == instead: either way the call ends with an error that
\* is not mace_check's).
NpEqAll(a, b) ==
    IF Len(a) = Len(b) THEN
        IF \A i \in 1..Len(a) : a[i] = b[i] THEN "True" ELSE "False"
    ELSE IF Len(a) = 1 THEN
        IF \A i \in 1..Len(b) : b[i] = a[1] THEN "True" ELSE "False"
    ELSE IF Len(b) = 1 THEN
        IF \A i \in 1..Len(a) : a[i] = b[1] THEN "True" ELSE "False"
    ELSE "AttributeError"

\* common.mace_check(condition, module, msg): the call goes on iff the
\* condition holds; otherwise the error is fatal to merge_opencl_binaries.
mace_check(condition) == condition = "True"

(***************************************************************************)
(* The keys.  platform_info_key is the string                             *)
(* 'mace_opencl_precompiled_platform_info_key'; KeyA is 'a'.               *)
(***************************************************************************)
platform_info_key ==
    <<109, 97, 99, 101, 95, 111, 112, 101, 110, 99, 108, 95, 112, 114, 101,
      99, 111, 109, 112, 105, 108, 101, 100, 95, 112, 108, 97, 116, 102, 111,
      114, 109, 95, 105, 110, 102, 111, 95, 107, 101, 121>>
KeyA == <<97>>
Keys == {platform_info_key, KeyA}
OrdinaryKeys == Keys \ {platform_info_key}

(***************************************************************************)
(* The dict kvs.  A Python 2 dict of at most five keys is a table of eight *)
(* slots; a new key takes the first free slot of its probe sequence        *)
(* (slot = hash & 7, then i = 5 * i + perturb + 1, perturb >>= 5) and      *)
(* iteration goes through the slots in order.  An entry is <<key, value>>, *)
(* a free slot <<>>.                                                       *)
(***************************************************************************)
DictSize == 8
Slots == 0..(DictSize - 1)

\* The probe sequences of the keys, from the string hash of CPython 2.
PyProbe(key) ==
    IF key = KeyA THEN <<0, 1, 5, 6, 2, 3>>
    ELSE <<7, 3, 3, 5, 3, 3>>

\* kvs = {}
EmptyDict == [s \in Slots |-> <<>>]

DictHas(d, key) == \E s \in Slots : d[s] # <<>> /\ d[s][1] = key
DictSlot(d, key) == CHOOSE s \in Slots : d[s] # <<>> /\ d[s][1] = key
DictGet(d, key) == d[DictSlot(d, key)][2]

\* The slot a new key takes.
FreeSlot(d, key) ==
    LET seq == PyProbe(key)
        i == CHOOSE j \in 1..Len(seq) :
                /\ d[seq[j]] = <<>>
                /\ \A k \in 1..(j - 1) : d[seq[k]] # <<>>
    IN seq[i]

\* Mutant: a key that is there keeps its value.
DictSetKeepFirst(d, key, value) ==
    IF DictHas(d, key) THEN d
    ELSE [d EXCEPT ![FreeSlot(d, key)] = <<key, value>>]

\* kvs[key] = value
DictSet(d, key, value) ==
    IF DictHas(d, key)
    THEN [d EXCEPT ![DictSlot(d, key)] = <<key, value>>]
    ELSE [d EXCEPT ![FreeSlot(d, key)] = <<key, value>>]

\* kvs.iteritems(): the entries in slot order.
RECURSIVE ItemsFrom(_, _)
ItemsFrom(d, s) ==
    IF s = DictSize THEN <<>>
    ELSE (IF d[s] = <<>> THEN <<>> ELSE <<d[s]>>) \o ItemsFrom(d, s + 1)

IterItems(d) == ItemsFrom(d, 0)

(***************************************************************************)
(* The reader: lines 415-435.                                              *)
(***************************************************************************)

\* One pass of `for _ in xrange(size)` at cursor idx with dict d.  The
\* result is the new cursor and dict, and the error raised, if any.
ParseRecord(arr, idx, d) ==
    LET ks == Slice(arr, idx, idx + ISize) IN
    IF ~CanUnpack(ks, ISize)
    THEN [idx |-> idx, kvs |-> d, err |-> "struct.error"]
    ELSE
    LET key_size == FromLE(ks)
        kb == Slice(arr, idx + ISize, idx + ISize + key_size) IN
    IF ~CanUnpack(kb, key_size)
    THEN [idx |-> idx, kvs |-> d, err |-> "struct.error"]
    ELSE
    LET at == idx + ISize + key_size
        vs == Slice(arr, at, at + ISize) IN
    IF ~CanUnpack(vs, ISize)
    THEN [idx |-> idx, kvs |-> d, err |-> "struct.error"]
    ELSE
    LET value_size == FromLE(vs)
        value == Slice(arr, at + ISize, at + ISize + value_size)
        next == at + ISize + value_size IN
    IF kb = platform_info_key /\ DictHas(d, kb)
    THEN LET same == NpEqAll(DictGet(d, kb), value) IN
         IF same = "AttributeError"
         THEN [idx |-> idx, kvs |-> d, err |-> "AttributeError"]
         ELSE IF ~mace_check(same)
         THEN [idx |-> idx, kvs |-> d, err |-> "mace_check"]
         ELSE [idx |-> next, kvs |-> d, err |-> "none"]
    ELSE [idx |-> next, kvs |-> DictSet(d, kb, value), err |-> "none"]

RECURSIVE ParseRecords(_, _, _, _)
ParseRecords(arr, idx, size, d) ==
    IF size = 0 THEN [kvs |-> d, err |-> "none"]
    ELSE LET r == ParseRecord(arr, idx, d) IN
         IF r.err # "none" THEN [kvs |-> d, err |-> r.err]
         ELSE ParseRecords(arr, r.idx, size - 1, r.kvs)

\* The body of the loop for one existing file: size, then the records.
ParseFile(arr, d) ==
    LET hs == Slice(arr, 0, QSize) IN
    IF ~CanUnpack(hs, QSize) THEN [kvs |-> d, err |-> "struct.error"]
    ELSE ParseRecords(arr, QSize, FromLE(hs), d)

(***************************************************************************)
(* The writer: lines 437-448.                                              *)
(***************************************************************************)

\* Mutant: the length of the value is not written.
PackItemNoValueSize(kv) == PackI(Len(kv[1])) \o kv[1] \o kv[2]

\* key_size, key, value_size, value of one entry.
PackItem(kv) == PackI(Len(kv[1])) \o kv[1] \o PackI(Len(kv[2])) \o kv[2]

RECURSIVE PackItems(_)
PackItems(items) ==
    IF items = <<>> THEN <<>>
    ELSE PackItem(Head(items)) \o PackItems(Tail(items))

\* output_byte_array for the dict d.
Serialize(d) == PackQ(Len(IterItems(d))) \o PackItems(IterItems(d))

(***************************************************************************)
(* The files.  A file is [exists, bytes].  A source is the file            *)
(* <dir>/opencl_bin/<cl_compiled_program_file_name> of one directory of    *)
(* binaries_dirs: absent, or a container written by a device run, whole,   *)
(* or declaring one record more than it holds, or cut short at its end.    *)
(***************************************************************************)
NoFile == [exists |-> FALSE, bytes |-> <<>>]
FileOf(b) == [exists |-> TRUE, bytes |-> b]

ValuesOf(key) ==
    IF key = platform_info_key THEN {<<1>>, <<2>>, <<1, 1>>}
    ELSE {<<1>>, <<2>>}

Records == UNION {{<<k, v>> : v \in ValuesOf(k)} : k \in Keys}
RecLists == UNION {[1..n -> Records] : n \in 0..MaxRecords}

\* The container format: record_count, then key_length, key, value_length,
\* value of each record, all integers little-endian.
RECURSIVE FormatRecords(_)
FormatRecords(recs) ==
    IF recs = <<>> THEN <<>>
    ELSE LE(Len(Head(recs)[1]), ISize) \o Head(recs)[1]
         \o LE(Len(Head(recs)[2]), ISize) \o Head(recs)[2]
         \o FormatRecords(Tail(recs))

Container(recs, declared) == LE(declared, QSize) \o FormatRecords(recs)

SourceSpecs ==
    {[missing |-> FALSE, recs |-> r, extra |-> 0, cut |-> c] :
        r \in RecLists, c \in 0..MaxCut}
    \cup {[missing |-> FALSE, recs |-> r, extra |-> 1, cut |-> 0] :
        r \in RecLists}
    \cup {[missing |-> TRUE, recs |-> <<>>, extra |-> 0, cut |-> 0]}

SourceFile(f) ==
    IF f.missing THEN NoFile
    ELSE LET full == Container(f.recs, Len(f.recs) + f.extra)
         IN FileOf(SubSeq(full, 1, Len(full) - f.cut))

\* The file of every source, computed once.
SourceFiles == [f \in SourceSpecs |-> SourceFile(f)]

\* What is at output_file_path before the call, when something is.
OldOutput == FileOf(Container(<<<<KeyA, <<2>>>>>>, 1))

(***************************************************************************)
(* What the sources read so far held: whether all of them were whole       *)
(* containers, whether none held a key twice, the first platform-info      *)
(* value, whether two sources held different platform-info values, the     *)
(* last value of each ordinary key, whether a source held an ordinary key  *)
(* with another value than a source before it, and what the last source    *)
(* was.                                                                    *)
(***************************************************************************)
ValuesIn(recs, key) == {recs[i][2] : i \in {j \in 1..Len(recs) : recs[j][1] = key}}

LastIn(recs, key) ==
    LET at == {j \in 1..Len(recs) : recs[j][1] = key}
    IN recs[CHOOSE j \in at : \A k \in at : k <= j][2]

FirstIn(recs, key) ==
    LET at == {j \in 1..Len(recs) : recs[j][1] = key}
    IN recs[CHOOSE j \in at : \A k \in at : j <= k][2]

Repeats(recs) == \E i, j \in 1..Len(recs) : i # j /\ recs[i][1] = recs[j][1]

GhostInit ==
    [whole |-> TRUE, noRepeat |-> TRUE, platFirst |-> <<>>,
     crossDiff |-> FALSE, last |-> [k \in OrdinaryKeys |-> <<>>],
     collided |-> FALSE, kind |-> "none"]

GhostMissing(g) == [g EXCEPT !.kind = "missing"]

GhostAfter(g, f) ==
    LET here == ValuesIn(f.recs, platform_info_key) IN
    [whole |-> g.whole /\ f.extra = 0 /\ f.cut = 0,
     noRepeat |-> g.noRepeat /\ ~Repeats(f.recs),
     platFirst |-> IF g.platFirst = <<>> /\ here # {}
                   THEN <<FirstIn(f.recs, platform_info_key)>>
                   ELSE g.platFirst,
     crossDiff |-> g.crossDiff
                   \/ (g.platFirst # <<>> /\ \E w \in here : w # g.platFirst[1]),
     last |-> [k \in OrdinaryKeys |->
                 IF ValuesIn(f.recs, k) # {} THEN <<LastIn(f.recs, k)>>
                 ELSE g.last[k]],
     collided |-> g.collided
                  \/ \E k \in OrdinaryKeys :
                        /\ g.last[k] # <<>>
                        /\ \E w \in ValuesIn(f.recs, k) : w # g.last[k][1],
     kind |-> IF f.extra > 0 THEN "short"
              ELSE IF f.cut > 0 THEN "cut" ELSE "whole"]

(***************************************************************************)
(* merge_opencl_binaries.  The list binaries_dirs is drawn as the loop     *)
(* goes: at the head of the loop either another directory follows or the   *)
(* list is at its end.                                                     *)
(***************************************************************************)

\* Mutant: the directory is read whether or not its file exists.
ExistsAlways(file) == TRUE

\* os.path.exists(binary_path)
Exists(file) == file.exists

\* Mutant: the output is appended to what the file held.
ToFileAppend(old, bytes) == FileOf(old.bytes \o bytes)

\* np.array(output_byte_array).tofile(output_file_path): the file is
\* created or replaced, whatever it held.
ToFile(old, bytes) == FileOf(bytes)

\* Mutant: the output is written inside the loop over the directories.
AfterWriteInLoop == "loop"

\* np.array(...).tofile(output_file_path) is the last statement.
AfterWrite == "done"

\* Lines 402-405: the directory of the output is made, kvs = {}.
MakeOutputDir ==
    /\ mpc = "start"
    /\ mpc' = "loop"
    /\ outDir' = TRUE
    /\ kvs' = EmptyDict
    /\ UNCHANGED <<nSrc, outFile, outFile0, err, ghost, lockVars,
                 callVars>>

\* Lines 406-435: the next directory.  One whose file does not exist is
\* passed over; otherwise the file is read and its records are put into
\* kvs.  Opening a file that is not there raises IOError.
ReadSource(f) ==
    LET file == SourceFiles[f] IN
    /\ mpc = "loop"
    /\ nSrc < MaxSources
    /\ nSrc' = nSrc + 1
    /\ IF ~Exists(file)
       THEN /\ ghost' = GhostMissing(ghost)
            /\ UNCHANGED <<mpc, kvs, err>>
       ELSE LET r == IF file.exists THEN ParseFile(file.bytes, kvs)
                     ELSE [kvs |-> kvs, err |-> "IOError"]
            IN /\ kvs' = r.kvs
               /\ err' = r.err
               /\ mpc' = IF r.err = "none" THEN "loop" ELSE "failed"
               /\ ghost' = IF file.exists THEN GhostAfter(ghost, f)
                           ELSE GhostMissing(ghost)
    /\ UNCHANGED <<outDir, outFile, outFile0, lockVars,
                 callVars>>

\* Lines 437-448: the dict is serialized and written to output_file_path.
WriteOutput ==
    /\ mpc = "loop"
    /\ outFile' = ToFile(outFile, Serialize(kvs))
    /\ mpc' = AfterWrite
    /\ UNCHANGED <<nSrc, outDir, outFile0, kvs, err, ghost, lockVars,
                 callVars>>

\* No call of the two-call specification is under way.
InitCallIdle ==
    /\ dirs = <<>>
    /\ calls = [c \in {} |-> <<>>]

InitMergeIdle ==
    /\ InitCallIdle
    /\ mpc = "idle"
    /\ nSrc = 0
    /\ outDir = FALSE
    /\ outFile = NoFile
    /\ outFile0 = NoFile
    /\ kvs = EmptyDict
    /\ err = "none"
    /\ ghost = GhostInit

\* merge_opencl_binaries is called; the output directory and a file of an
\* earlier merge may or may not be there.
InitMerge ==
    /\ InitLock
    /\ InitCallIdle
    /\ mpc = "start"
    /\ nSrc = 0
    /\ outFile0 \in {NoFile, OldOutput}
    /\ outFile = outFile0
    /\ outDir = outFile0.exists
    /\ kvs = EmptyDict
    /\ err = "none"
    /\ ghost = GhostInit

NextMerge ==
    \/ MakeOutputDir
    \/ \E f \in SourceSpecs : ReadSource(f)
    \/ WriteOutput

SpecMerge == InitMerge /\ [][NextMerge]_vars

(***************************************************************************)
(* Two calls of merge_opencl_binaries on the same list of directories,     *)
(* each taken as a whole.  The list is drawn before the calls: every       *)
(* directory's file is absent or a whole container, and the list holds at  *)
(* most MaxCallRecords directories and MaxCallRecords records.  The first  *)
(* call finds no file at output_file_path, the second the output of an     *)
(* earlier merge.                                                          *)
(***************************************************************************)
MissingSource == [missing |-> TRUE, recs |-> <<>>, extra |-> 0, cut |-> 0]
WholeSource(r) == [missing |-> FALSE, recs |-> r, extra |-> 0, cut |-> 0]

RecListsUpTo(n) == UNION {[1..m -> Records] : m \in 0..n}

RECURSIVE DirLists(_, _)
DirLists(budget, len) ==
    IF len = 0 THEN {<<>>}
    ELSE {<<>>} \cup
         UNION {{<<s>> \o rest : rest \in DirLists(budget - Len(s.recs), len - 1)} :
                   s \in {MissingSource}
                         \cup {WholeSource(r) : r \in RecListsUpTo(budget)}}

CallInputs == DirLists(MaxCallRecords, MaxCallRecords)

CallNames == {"first", "second"}

\* Lines 406-435 for the directories from the i-th on, with dict d.
RECURSIVE ReadAll(_, _, _)
ReadAll(ds, i, d) ==
    IF i > Len(ds) THEN [kvs |-> d, err |-> "none"]
    ELSE LET file == SourceFile(ds[i]) IN
         IF ~Exists(file) THEN ReadAll(ds, i + 1, d)
         ELSE LET r == IF file.exists THEN ParseFile(file.bytes, d)
                       ELSE [kvs |-> d, err |-> "IOError"]
              IN IF r.err # "none" THEN r ELSE ReadAll(ds, i + 1, r.kvs)

\* merge_opencl_binaries(binaries_dirs, ...) with `old` at output_file_path.
MergeCall(ds, old) ==
    LET r == ReadAll(ds, 1, EmptyDict) IN
    IF r.err = "none"
    THEN [status |-> "done", err |-> "none", kvs |-> r.kvs,
          file |-> ToFile(old, Serialize(r.kvs))]
    ELSE [status |-> "failed", err |-> r.err, kvs |-> r.kvs, file |-> old]

\* One call runs from its first line to its last.
RunCall(c) ==
    /\ calls[c].status = "start"
    /\ calls' = [calls EXCEPT ![c] = MergeCall(dirs, calls[c].file)]
    /\ UNCHANGED <<dirs, lockVars, mergeVars>>

InitCall ==
    /\ InitLock
    /\ mpc = "idle"
    /\ nSrc = 0
    /\ outDir = FALSE
    /\ outFile = NoFile
    /\ outFile0 = NoFile
    /\ kvs = EmptyDict
    /\ err = "none"
    /\ ghost = GhostInit
    /\ dirs \in CallInputs
    /\ calls = [c \in CallNames |->
                  [status |-> "start", err |-> "none", kvs |-> EmptyDict,
                   file |-> IF c = "first" THEN NoFile ELSE OldOutput]]

NextCall == \E c \in CallNames : RunCall(c)

SpecCall == InitCall /\ [][NextCall]_vars

Init == InitLock /\ InitMergeIdle

Next ==
    \/ \E p \in Procs, d \in Serials :
          \/ Start(p, "adb_run", d, DefaultTimeout)
          \/ Start(p, "probe", d, ProbeTimeout)
          \/ \E t \in Timeouts : Start(p, "device_lock", d, t)
    \/ \E p \in Procs :
          \/ GetProp(p)
          \/ GetPropFail(p)
          \/ TryAcquire(p)
          \/ CheckTimeout(p)
          \/ AdbStep(p)
          \/ AdbFail(p)
          \/ CsExit(p, "returned")
          \/ CsExit(p, "raised")
          \/ Release(p)
    \/ Tick

Spec == Init /\ [][Next]_vars

(***************************************************************************)
(* The same processes, any of which may die while it holds a lock.         *)
(***************************************************************************)

\* Mutant: the lock outlives the process that held it.
HoldersAfterDeathKept(holders, p) == holders

\* The kernel closes the files of a process that ends, and with the file
\* goes its flock: the lock is state of the open file, not of the lock file
\* on disk nor of the program.
HoldersAfterDeath(holders, p) == holders \ {p}

\* p crashes or is killed inside the with block.
Crash(p) ==
    /\ pc[p] \in HoldingPcs
    /\ pc' = [pc EXCEPT ![p] = "dead"]
    /\ result' = [result EXCEPT ![p] = "killed"]
    /\ flock' = [flock EXCEPT ![PathOf(p)] = HoldersAfterDeath(@, p)]
    /\ env' = [q \in Procs |->
                 IF q # p /\ Active(q, serial[p]) /\ env[q] = "held"
                 THEN "mixed" ELSE env[q]]
    /\ UNCHANGED <<op, serial, timeout, start, blockedBy, atRaise, users, now,
                   mergeVars, callVars>>

NextCrash ==
    \/ Next
    \/ \E p \in Procs : Crash(p)

SpecCrash == Init /\ [][NextCrash]_vars

(***************************************************************************)
(* Processes that call adb_run again and again, for claims about waiting.  *)
(* Every process that has begun a call keeps running, its sleeps end and   *)
(* its adb commands end; nothing obliges a process to begin a call.  The   *)
(* clock stops counting at MaxTime, far below the default timeout, while   *)
(* the poll intervals keep ending.                                         *)
(***************************************************************************)

\* adb_run has returned or raised; the process is free to call it again,
\* and what is recorded of the call that ended is dropped.
Again(p) ==
    /\ pc[p] = "done"
    /\ pc' = [pc EXCEPT ![p] = "idle"]
    /\ op' = [op EXCEPT ![p] = "none"]
    /\ serial' = [serial EXCEPT ![p] = "none"]
    /\ timeout' = [timeout EXCEPT ![p] = 0]
    /\ start' = [start EXCEPT ![p] = 0]
    /\ result' = [result EXCEPT ![p] = "none"]
    /\ env' = [env EXCEPT ![p] = "none"]
    /\ blockedBy' = [blockedBy EXCEPT ![p] = "none"]
    /\ atRaise' = [atRaise EXCEPT ![p] = "none"]
    /\ users' = [d \in Serials |-> users[d] \ {p}]
    /\ UNCHANGED <<flock, now, mergeVars, callVars>>

\* One poll interval passes: every time.sleep(poll_intervall) ends.
PollEnds ==
    /\ now' = Min(now + 1, MaxTime)
    /\ pc' = [p \in Procs |-> IF pc[p] = "sleep" THEN "try" ELSE pc[p]]
    /\ UNCHANGED <<flock, op, serial, timeout, start, result, env, blockedBy,
                   atRaise, users,
                   mergeVars, callVars>>

\* The steps of a call that is under way.
Running(p) ==
    \/ GetProp(p)
    \/ GetPropFail(p)
    \/ TryAcquire(p)
    \/ CheckTimeout(p)
    \/ AdbStep(p)
    \/ AdbFail(p)
    \/ Release(p)

NextLive ==
    \/ \E p \in Procs, d \in Serials : Start(p, "adb_run", d, DefaultTimeout)
    \/ \E p \in Procs : Running(p)
    \/ \E p \in Procs : Again(p)
    \/ PollEnds

FairLive ==
    /\ \A p \in Procs : WF_vars(Running(p))
    /\ WF_vars(PollEnds)

SpecLive == Init /\ [][NextLive]_vars /\ FairLive

(***************************************************************************)
(* Claims about the device lock, checked under Spec.                       *)
(***************************************************************************)

Holders(d) == {p \in Procs : serial[p] = d /\ pc[p] \in HoldingPcs}

\* C1: for every device serial, at most one process holds the lock of
\* device_lock_path(serial) at any instant, whichever of adb_run,
\* device_lock and is_device_locked the processes use.
C1_MutualExclusion ==
    \A d \in Serials :
        /\ Cardinality(flock[device_lock_path(d)]) <= 1
        /\ Cardinality(Holders(d)) <= 1
        /\ Holders(d) = flock[device_lock_path(d)]

\* A process holds the lock of a device while another one, refused, waits.
C1_Witness ==
    \E p, q \in Procs :
        /\ p # q /\ serial[p] = serial[q]
        /\ pc[p] \in AdbPcs /\ p \in flock[PathOf(p)]
        /\ pc[q] = "sleep" /\ blockedBy[q] = p

\* p and q are the only two processes that ever acquired the lock of d,
\* both with `with device_lock(d, timeout)`.
Pair(p, q, d) ==
    /\ p # q
    /\ users[d] = {p, q}
    /\ op[p] = "device_lock" /\ op[q] = "device_lock"

\* C2 (as stated): of two processes acquiring the free lock of one device,
\* one fails with the timeout error only if the other still holds the lock
\* when the timeout is found to have elapsed.
C2_TimeoutOnlyWhileHeld ==
    \A d \in Serials : \A p, q \in Procs :
        Pair(p, q, d) /\ result[p] = "Timeout" => atRaise[p] = "held"

\* C2 (amended): of two processes acquiring the free lock of one device, the
\* two are never inside the critical section together; one of them acquires
\* at its first attempt; the other acquires only once the first has
\* released, and fails with the timeout error only after an attempt that
\* found the first holding the lock (the first may have released between
\* that attempt and the reading of the clock).
C2_TwoContenders ==
    \A d \in Serials : \A p, q \in Procs :
        Pair(p, q, d) =>
            /\ ~(pc[p] \in HoldingPcs /\ pc[q] \in HoldingPcs)
            /\ ~(blockedBy[p] # "none" /\ blockedBy[q] # "none")
            /\ (blockedBy[p] # "none" => blockedBy[p] = q)
            /\ (blockedBy[p] = q /\ pc[p] \in HoldingPcs => pc[q] = "done")
            /\ (result[p] = "Timeout" =>
                    blockedBy[p] = q /\ result[q] # "Timeout")

\* One of the two has timed out although the other had already released and
\* returned.
C2_Witness ==
    \E d \in Serials : \E p, q \in Procs :
        /\ Pair(p, q, d)
        /\ result[p] = "Timeout" /\ atRaise[p] = "free"
        /\ pc[q] = "done" /\ result[q] = "returned"

\* C3: every exit from the block of `with device_lock(serialno)`, by return
\* or by an exception of an adb command, releases the lock: a process holds
\* a lock only while it is inside the block, so that once adb_run has
\* returned or raised the lock is no longer held by it.
C3_ReleasedOnExit ==
    \A p \in Procs : \A d \in Serials :
        p \in flock[device_lock_path(d)] =>
            serial[p] = d /\ pc[p] \in HoldingPcs

\* adb_run has raised inside the block, and another process has since taken
\* the lock of the same device.
C3_Witness ==
    \E p, q \in Procs :
        /\ p # q /\ serial[p] = serial[q]
        /\ op[p] = "adb_run" /\ pc[p] = "done" /\ result[p] = "raised"
        /\ p \in users[serial[p]]
        /\ q \in flock[PathOf(q)] /\ blockedBy[q] = p

C12_DistinctDevicesIndependent ==
    /\ \A d, e \in Serials : d # e => device_lock_path(d) # device_lock_path(e)
    /\ \A p \in Procs :
          (pc[p] \in {"check", "sleep"} \/ result[p] \in {"Timeout", "True"}) =>
              /\ blockedBy[p] \in Procs \ {p}
              /\ serial[blockedBy[p]] = serial[p]
    /\ \A p \in Procs :
          (pc[p] = "try" /\ flock[device_lock_path(serial[p])] = {}) =>
              ENABLED (TryAcquire(p) /\ p \in flock'[device_lock_path(serial[p])])

\* Two processes hold the locks of two devices at once, and a probe of one
\* device began and returned False while the lock of the other was held.
C12_Witness ==
    \E p, q, r \in Procs :
        /\ serial[p] # serial[q]
        /\ pc[p] \in AdbPcs /\ p \in flock[PathOf(p)]
        /\ pc[q] = "cs" /\ q \in flock[PathOf(q)]
        /\ op[r] = "probe" /\ serial[r] # serial[p]
        /\ pc[r] = "done" /\ result[r] = "False"

\* C13 (as stated): a process that has been refused the lock is never left
\* waiting past its timeout: it does not sleep, or come back from its sleep
\* for another attempt, once the timeout has elapsed.
C13_NeverWaitingPastTimeout ==
    \A p \in Procs :
        (pc[p] \in {"sleep", "try"} /\ blockedBy[p] # "none") =>
            now - start[p] <= timeout[p]

\* C13 (amended): a process goes to sleep in FileLock.acquire only while
\* its timeout has not elapsed, so that it is woken at most one poll
\* interval past the timeout and makes one more attempt; the check after a
\* failed attempt that finds the timeout elapsed ends the acquire with the
\* timeout error (True for a probe); and a process whose operation has
\* ended makes no further attempt and holds no lock.
C13_BoundedWaitNoRetry ==
    [][\A p \in Procs :
          /\ (pc'[p] = "sleep" => now' - start'[p] <= timeout'[p])
          /\ (pc[p] = "check" /\ TimedOut(p) /\ pc'[p] # "check") =>
                (pc'[p] = "done" /\ result'[p] \in {"Timeout", "True"})
          /\ (pc[p] = "done") =>
                (pc'[p] = "done" /\ result'[p] = result[p]
                 /\ \A path \in LockPaths : p \notin flock'[path])]_vars

\* A process is woken for another attempt after its timeout has elapsed,
\* and another one has failed with the timeout error.
C13_Witness ==
    \E p, q \in Procs :
        /\ p # q
        /\ op[p] = "device_lock" /\ pc[p] = "try"
        /\ blockedBy[p] # "none" /\ now - start[p] > timeout[p]
        /\ op[q] = "device_lock" /\ pc[q] = "done" /\ result[q] = "Timeout"

\* C14: the timeout error of a failed acquire of device_lock(serialno,
\* timeout) names the device, by the path of its lock file, and carries the
\* timeout that was exceeded.
C14_TimeoutErrorCarriesBoth ==
    \A p \in Procs :
        result[p] = "Timeout" =>
            /\ RaisedBy(p).lock_file = device_lock_path(serial[p])
            /\ "timeout" \in DOMAIN RaisedBy(p)
            /\ RaisedBy(p)["timeout"] = timeout[p]

\* C15: once is_device_locked has returned, True or False, the probing
\* process holds no lock; and no step of a probe takes the lock away from
\* another process or gives it one.
C15_ProbeFrame ==
    [][\A p \in Procs :
          /\ (op'[p] = "probe" /\ pc'[p] = "done") =>
                \A path \in LockPaths : p \notin flock'[path]
          /\ (op[p] = "probe" /\ pc'[p] # pc[p]) =>
                \A path \in LockPaths :
                    flock'[path] \ {p} = flock[path] \ {p}]_vars

\* A probe has returned True and the holder that refused it still holds the
\* lock; another probe took the free lock of the same device before, has
\* returned False and holds nothing.
C15_Witness ==
    \E p, q, h \in Procs :
        /\ op[p] = "probe" /\ pc[p] = "done" /\ result[p] = "True"
        /\ blockedBy[p] = h /\ h \in flock[PathOf(p)] /\ op[h] # "probe"
        /\ op[q] = "probe" /\ pc[q] = "done" /\ result[q] = "False"
        /\ serial[q] = serial[p]
        /\ \A path \in LockPaths : q \notin flock[path]

\* The place of an adb command in the block of adb_run (0: not one).
StepRank(at) ==
    CASE at = "rm" -> 1
      [] at = "mkdir" -> 2
      [] at = "push" -> 3
      [] at = "run" -> 4
      [] OTHER -> 0

\* p has issued its rm -rf and has not yet ended its run of the binary.
InDeviceOperation(p) == op[p] = "adb_run" /\ StepRank(pc[p]) >= 2

\* C21: when an invocation of adb_run issues its rm, mkdir, push or run
\* command it holds the lock of its serial, and no other invocation of
\* adb_run on that serial is between its own rm and the end of its run;
\* an invocation comes to its commands by acquiring the lock, begins with
\* rm, and passes from each command to the next of rm, mkdir, push, run
\* or, when the command fails or run has ended, to the release.
C21_AdbRunAtomic ==
    [][\A p \in Procs :
          /\ (pc[p] \in AdbPcs /\ pc'[p] # pc[p]) =>
                /\ op[p] = "adb_run"
                /\ p \in flock[device_lock_path(serial[p])]
                /\ \A q \in Procs \ {p} :
                      serial[q] = serial[p] =>
                          ~InDeviceOperation(q) /\ pc[q] \notin AdbPcs
                /\ \/ pc'[p] = "release"
                   \/ StepRank(pc'[p]) = StepRank(pc[p]) + 1
          /\ (pc[p] \notin AdbPcs /\ pc'[p] \in AdbPcs) =>
                (pc[p] = "try" /\ pc'[p] = "rm" /\ op[p] = "adb_run"
                 /\ p \in flock'[device_lock_path(serial[p])])
          /\ (pc[p] = "run" /\ result'[p] = "returned") => pc'[p] = "release"
      ]_vars

\* An invocation of adb_run has run its binary and returned; another one
\* on the same serial, which it had refused, has since issued its own rm,
\* mkdir and push and is about to run.
C21_Witness ==
    \E p, q \in Procs :
        /\ p # q /\ serial[p] = serial[q]
        /\ op[p] = "adb_run" /\ pc[p] = "done" /\ result[p] = "returned"
        /\ op[q] = "adb_run" /\ blockedBy[q] = p /\ pc[q] = "run"

\* C22: is_device_locked(d) returns True only when the holder that refused
\* it was inside the block of an adb_run or of a caller's device_lock on d:
\* a probe is never refused by the lock another probe holds for the moment
\* of its own check.
C22_ProbeTrueOnlyForOperation ==
    \A p \in Procs :
        (op[p] = "probe" /\ result[p] = "True") =>
            /\ blockedBy[p] \in Procs
            /\ op[blockedBy[p]] \in {"adb_run", "device_lock"}

\* The positions of adb_run at which a command is sent to the device: the
\* getprop query and the commands of the block.
CommandPcs == AdbPcs \cup {"getprop"}

\* C24: adb_run sends a command to its device, the getprop query included,
\* only while it holds the lock of the serial: every command is issued by a
\* process that is in the flock of its lock file at that moment.
C24_CommandsOnlyUnderLock ==
    [][\A p \in Procs :
          (op[p] = "adb_run" /\ pc[p] \in CommandPcs /\ pc'[p] # pc[p]) =>
              p \in flock[device_lock_path(serial[p])]]_vars

(***************************************************************************)
(* Claims about waiting, checked under SpecLive.                           *)
(***************************************************************************)

\* C23: an invocation of adb_run that waits for the lock of its serial
\* obtains it in the end, when every holder releases the lock in the end
\* and the timeout of 3600 s does not elapse, whatever the other processes
\* acquire and release meanwhile.
C23_NoStarvation ==
    \A p \in Procs :
        (op[p] = "adb_run" /\ pc[p] \in AcquiringPcs) ~> (pc[p] \in HoldingPcs)

(***************************************************************************)
(* Claims about holders that die, checked under SpecCrash.                 *)
(***************************************************************************)

\* C17: a process that died while it held the lock of a device holds it no
\* longer; an attempt is refused only by a holder that is alive at that
\* moment, so that an attempt on a device whose holder has died succeeds
\* and a probe of it returns False; and the lock is taken only when no
\* living process holds it.
C17_DeadHolderFreesLock ==
    [][\A p \in Procs :
          /\ pc'[p] = "dead" => \A path \in LockPaths : p \notin flock'[path]
          /\ (pc[p] = "try" /\ pc'[p] = "check") =>
                (blockedBy'[p] \in Procs /\ pc[blockedBy'[p]] \in HoldingPcs)
          /\ (pc[p] = "try" /\ pc'[p] \in HoldingPcs) =>
                ~\E q \in Procs \ {p} :
                     serial[q] = serial[p] /\ pc[q] \in HoldingPcs
          /\ (op[p] = "probe" /\ pc[p] = "try" /\ pc'[p] # "try") =>
                (result'[p] = "False" <=>
                    ~\E q \in Procs \ {p} :
                         serial[q] = serial[p] /\ pc[q] \in HoldingPcs)
      ]_vars

\* A holder died inside its block; a process that it had refused holds the
\* lock of the device now, and a probe that it had refused has since
\* returned False.
C17_Witness ==
    \E h, q, r \in Procs :
        /\ pc[h] = "dead" /\ result[h] = "killed"
        /\ serial[q] = serial[h] /\ serial[r] = serial[h]
        /\ op[q] # "probe" /\ blockedBy[q] = h /\ q \in flock[PathOf(q)]
        /\ op[r] = "probe" /\ blockedBy[r] = h
        /\ pc[r] = "done" /\ result[r] = "False"

(***************************************************************************)
(* Claims about merge_opencl_binaries, checked under SpecMerge.            *)
(***************************************************************************)

\* The key-value pairs of a dict.
Pairs(d) == {d[s] : s \in {t \in Slots : d[t] # <<>>}}

\* What a reader of the format finds in the file at output_file_path.
ReadBack == ParseFile(outFile.bytes, EmptyDict)

Ended == mpc \in {"done", "failed"}

\* C5: when every source is a whole container that holds the platform-info
\* key at most once, the merge fails with the platform-info conflict if and
\* only if two sources hold platform-info values that are not
\* byte-identical.
C5_ConflictIffDiffer ==
    (Ended /\ ghost.whole /\ ghost.noRepeat)
        => ((mpc = "failed" /\ err = "mace_check") <=> ghost.crossDiff)

\* C6: when every source is a whole container, the written output holds,
\* for each ordinary key, the value of the last record of the last source
\* that holds the key, and no key that no source holds; and a call that
\* fails on whole containers fails in the platform-info check only.
C6_LastSourceWins ==
    /\ (mpc = "done" /\ ghost.whole) =>
          \A k \in OrdinaryKeys :
              IF ghost.last[k] = <<>> THEN ~DictHas(ReadBack.kvs, k)
              ELSE /\ DictHas(ReadBack.kvs, k)
                   /\ DictGet(ReadBack.kvs, k) = ghost.last[k][1]
    /\ (mpc = "failed" /\ ghost.whole) => err \in {"mace_check", "AttributeError"}

\* Two sources held different values of an ordinary key and the output is
\* written.
C6_Witness ==
    /\ mpc = "done"
    /\ ghost.whole
    /\ ghost.noRepeat
    /\ ghost.collided
    /\ DictGet(ReadBack.kvs, KeyA) = <<2>>

\* C7: passing a directory whose file does not exist changes nothing but
\* the position in the list: the dict, the error, the course of the call
\* and the output are what they were.
C7_MissingSkipped ==
    [][(ghost'.kind = "missing" /\ nSrc' = nSrc + 1)
         => UNCHANGED <<kvs, mpc, err, outFile, outDir>>]_vars

\* A missing file came after a source that was read, and the output is
\* written.
C7_Witness ==
    /\ mpc = "done"
    /\ ghost.kind = "missing"
    /\ nSrc >= 2
    /\ DictHas(kvs, KeyA)
    /\ Pairs(ReadBack.kvs) = Pairs(kvs)

\* C8: a call that has failed has left the file at output_file_path as it
\* was before the call.
C8_NoPartialOutput == mpc = "failed" => outFile = outFile0

\* The call failed with records of an earlier source already in kvs, and
\* there was an output of an earlier merge.
C8_Witness ==
    /\ mpc = "failed"
    /\ nSrc >= 2
    /\ Pairs(kvs) # {}
    /\ outFile0 = OldOutput
    /\ outFile = OldOutput

\* C9: a source that declares more records than it holds makes the call
\* fail with the error MalformedContainer.
C9_TruncatedIsMalformedContainer ==
    ghost.kind = "short" => (mpc = "failed" /\ err = "MalformedContainer")

\* C10: a reader of the format reads from the written output, without
\* error, exactly the key-value pairs that were in kvs.
C10_RoundTrip ==
    mpc = "done" => (ReadBack.err = "none" /\ Pairs(ReadBack.kvs) = Pairs(kvs))

\* An output of two keys was written and read back.
C10_Witness ==
    /\ mpc = "done"
    /\ Cardinality(Pairs(kvs)) = 2
    /\ Len(outFile.bytes) > QSize
    /\ Pairs(ReadBack.kvs) = Pairs(kvs)

\* C19: once a source has been read that ends before the end of a record
\* it declares, the call has failed: no value shorter than its declared
\* length is in kvs while the call goes on, and no output is written.
C19_EveryReadBoundsChecked == ~ghost.whole => mpc = "failed"

\* The directory of output_file_path was there before the call: the caller
\* starts with the directory exactly when an earlier output file is in it.
OutDirBefore == outFile0.exists

\* C25: a call of merge_opencl_binaries that fails leaves the filesystem as
\* it found it: the output file is what it was before the call, and the
\* directory of the output file exists only if it did before the call.
C25_FailureLeavesFilesystem ==
    mpc = "failed" => (outFile = outFile0 /\ outDir = OutDirBefore)

(***************************************************************************)
(* Claims about whole calls of merge_opencl_binaries, checked under        *)
(* SpecCall.                                                               *)
(***************************************************************************)

FirstCall == calls["first"]
SecondCall == calls["second"]
CallEnded(c) == c.status \in {"done", "failed"}

RECURSIVE AllRecs(_)
AllRecs(ds) ==
    IF ds = <<>> THEN <<>>
    ELSE (IF Head(ds).missing THEN <<>> ELSE Head(ds).recs) \o AllRecs(Tail(ds))

\* The keys of recs, each once, in the order they are first seen.
RECURSIVE FirstSeenKeys(_, _)
FirstSeenKeys(recs, seen) ==
    IF recs = <<>> THEN seen
    ELSE FirstSeenKeys(Tail(recs),
             IF \E i \in 1..Len(seen) : seen[i] = Head(recs)[1] THEN seen
             ELSE Append(seen, Head(recs)[1]))

KeyOrder == FirstSeenKeys(AllRecs(dirs), <<>>)

\* C16: the output of a successful call holds one record per key, in the
\* order in which the keys were first seen while reading the sources.
C16_FirstInsertionOrder ==
    FirstCall.status = "done" =>
        FirstCall.file.bytes =
            Container([i \in 1..Len(KeyOrder) |->
                          <<KeyOrder[i], DictGet(FirstCall.kvs, KeyOrder[i])>>],
                      Len(KeyOrder))

\* The list is one file that holds the platform-info key twice, with two
\* different values.
PlatformTwiceInOneFile ==
    /\ Len(dirs) = 1
    /\ ~dirs[1].missing
    /\ Len(dirs[1].recs) = 2
    /\ dirs[1].recs[1][1] = platform_info_key
    /\ dirs[1].recs[2][1] = platform_info_key
    /\ dirs[1].recs[1][2] # dirs[1].recs[2][2]

\* C18 (as stated): a single file that holds the platform-info key twice
\* with different values merges successfully and the later value is kept.
C18_LastWriteWinsInOneFile ==
    (PlatformTwiceInOneFile /\ CallEnded(FirstCall)) =>
        /\ FirstCall.status = "done"
        /\ DictGet(FirstCall.kvs, platform_info_key) = dirs[1].recs[2][2]

\* C18 (amended): an ordinary key repeated inside one file, or in several,
\* ends with the value of its last record.  The platform-info key is
\* compared with the value already in kvs wherever that came from, the same
\* file included: a file that holds it twice with different values of the
\* same length makes the call fail in mace_check, and whenever the call
\* succeeds the value kept is that of the first record, never a later one.
C18_RepeatedKeyInOneFile ==
    \A c \in CallNames :
        /\ calls[c].status = "done" =>
              \A k \in Keys :
                  ValuesIn(AllRecs(dirs), k) # {} =>
                      DictGet(calls[c].kvs, k) =
                          IF k = platform_info_key
                          THEN FirstIn(AllRecs(dirs), k)
                          ELSE LastIn(AllRecs(dirs), k)
        /\ (CallEnded(calls[c]) /\ PlatformTwiceInOneFile
            /\ Len(dirs[1].recs[1][2]) = Len(dirs[1].recs[2][2])) =>
              (calls[c].status = "failed" /\ calls[c].err = "mace_check")

\* A file that holds the platform-info key with the values 01 and 02 has
\* made the call fail, leaving the first value in kvs.
C18_Witness ==
    /\ PlatformTwiceInOneFile
    /\ dirs[1].recs[1][2] = <<1>> /\ dirs[1].recs[2][2] = <<2>>
    /\ FirstCall.status = "failed" /\ FirstCall.err = "mace_check"
    /\ DictGet(FirstCall.kvs, platform_info_key) = <<1>>
    /\ FirstCall.file = NoFile

\* The keys that the files of the list hold.
KeysOfDirs == {AllRecs(dirs)[i][1] : i \in 1..Len(AllRecs(dirs))}

\* C20: the output of a successful call is a well-formed container of the
\* keys that the existing sources hold: record_count is their number (0
\* when every source is absent), then comes one record per key, each with
\* the lengths of its key and of its value, and nothing follows.
C20_OutputWellFormed ==
    \A c \in CallNames :
        calls[c].status = "done" =>
            \E ord \in [1..Cardinality(KeysOfDirs) -> KeysOfDirs] :
                /\ \A i, j \in DOMAIN ord : i # j => ord[i] # ord[j]
                /\ calls[c].file.bytes =
                      Container([i \in DOMAIN ord |->
                                    <<ord[i], DictGet(calls[c].kvs, ord[i])>>],
                                Cardinality(KeysOfDirs))

\* Of two directories one has no file and the other holds two keys; both
\* calls have written an output that declares two records.
C20_Witness ==
    /\ Len(dirs) = 2
    /\ \E i \in 1..2 : dirs[i].missing
    /\ Cardinality(KeysOfDirs) = 2
    /\ \A c \in CallNames :
          /\ calls[c].status = "done"
          /\ Slice(calls[c].file.bytes, 0, QSize) = LE(2, QSize)

====
